---- MODULE Spec2Model ----
(***************************************************************************)
(* A model of path_to_csv.py: the size converter, the directory walker,    *)
(* the metadata extractor, the field-name collector, the CSV writer and    *)
(* the orchestrating main.                                                 *)
(*                                                                         *)
(* Text is modelled as a sequence of one-character strings, so that        *)
(* splitting, replacing, substring tests and number formatting are         *)
(* computed rather than assumed.  A path is text with "/" as separator.    *)
(***************************************************************************)
EXTENDS Integers, Sequences, FiniteSets, TLC

VARIABLES
    \* ---- the file system, main and one InformationExtractor (Spec)
    dirs,           \* absolute path of a directory -> its listing
    files,          \* absolute path of a file -> what it holds
    pc,             \* where main is: "idle", "extract", "done", "failed"
    target,         \* options.dir
    recursive,      \* options.recursive
    pending,        \* the directories main has still to extract
    all_files,      \* main's all_files
    extractor,      \* which InformationExtractor object the fields below are
    n_files,        \* its n_files
    n_dirs,         \* its n_dirs
    failed_ebooks,  \* its failed_ebooks
    calls,          \* the get_information calls on it: <<dir_path, raised>>
    namespaces,     \* the directories it handed to dispatch.NameSpace
    returned,       \* the records its calls returned, concatenated
    error,          \* the exception the last call or main ended with, or ""
    summary,        \* the counts main logged at its end
    \* ---- the size converter on its own (SpecMb)
    mb_size,        \* the argument of transform_to_mb
    mb_result,      \* what it returned (<<>> before the call)
    mb_pc,          \* "input" | "done"
    \* ---- the field-name collector and the CSV writer on their own
    \*      (SpecCsv)
    fr_records,     \* the records (all_files)
    fr_names,       \* what get_field_names returned for them
    fr_header,      \* the field_names given to write_csv
    fr_old,         \* the rows the target file held before the write
    fr_rows,        \* the rows the target file holds
    fr_error,       \* the exception write_csv raised, or ""
    fr_pc,          \* "input" | "named" | "written"
    \* ---- extract_epub_information on its own (SpecEpub)
    ep_reader,      \* what the e-book reader does with the file
    ep_before,      \* this_file before the call
    ep_after,       \* this_file after the call
    ep_failed,      \* failed_ebooks after the call (it was empty before)
    ep_pc           \* "input" | "done"

mainVars == <<dirs, files, pc, target, recursive, pending, all_files,
              extractor, n_files, n_dirs, failed_ebooks, calls, namespaces,
              returned, error, summary>>
frVars == <<fr_records, fr_names, fr_header, fr_old, fr_rows, fr_error,
            fr_pc>>
epVars == <<ep_reader, ep_before, ep_after, ep_failed, ep_pc>>
mbVars == <<mb_size, mb_result, mb_pc>>
vars == <<mainVars, mbVars, frVars, epVars>>

(***************************************************************************)
(* Text helpers                                                            *)
(***************************************************************************)
Digits == <<"0", "1", "2", "3", "4", "5", "6", "7", "8", "9">>

DigitSet == {Digits[i] : i \in 1..10}

DigitVal(c) == (CHOOSE i \in 1..10 : Digits[i] = c) - 1

\* str.split(sep) for a one-character separator: the segments between the
\* occurrences of sep, empty segments included.
Split(s, sep) ==
    LET cuts == <<0>> \o SelectSeq([i \in 1..Len(s) |-> i],
                                   LAMBDA i : s[i] = sep)
                      \o <<Len(s) + 1>>
    IN [k \in 1..(Len(cuts) - 1) |->
           SubSeq(s, cuts[k] + 1, cuts[k + 1] - 1)]

\* str.replace(a, b) for one-character a and b.
Replace(s, a, b) == [i \in 1..Len(s) |-> IF s[i] = a THEN b ELSE s[i]]

\* needle in hay (substring test).
Contains(hay, needle) ==
    \E i \in 0..(Len(hay) - Len(needle)) :
        \A j \in 1..Len(needle) : hay[i + j] = needle[j]

\* int -> decimal digits, as str(int) prints a non-negative int.
RECURSIVE DecStr(_)
DecStr(n) == IF n < 10 THEN <<Digits[n + 1]>>
             ELSE Append(DecStr(n \div 10), Digits[(n % 10) + 1])

\* decimal digits -> int (empty text is 0).
RECURSIVE DecVal(_)
DecVal(s) == IF s = <<>> THEN 0
             ELSE 10 * DecVal(SubSeq(s, 1, Len(s) - 1)) + DigitVal(s[Len(s)])

RECURSIVE Pow(_, _)
Pow(b, k) == IF k = 0 THEN 1 ELSE b * Pow(b, k - 1)

(***************************************************************************)
(* IEEE-754 binary64 arithmetic, as far as transform_to_mb uses it.        *)
(* A positive double is [m |-> 53 bits, most significant first and 1,      *)
(* e |-> exponent], of value m * 2^e; zero is [m |-> <<>>, e |-> 0].       *)
(***************************************************************************)
MantBits == 53

FZero == [m |-> <<>>, e |-> 0]

\* 2^k, by squaring.
RECURSIVE Pow2(_)
Pow2(k) == IF k = 0 THEN 1
           ELSE LET h == Pow2(k \div 2)
                IN IF k % 2 = 1 THEN 2 * h * h ELSE h * h

\* 2^k mod D, by squaring.
RECURSIVE Pow2Mod(_, _)
Pow2Mod(k, D) == IF k = 0 THEN 1 % D
                 ELSE LET h == Pow2Mod(k \div 2, D)
                      IN IF k % 2 = 1 THEN (2 * ((h * h) % D)) % D
                         ELSE (h * h) % D

\* the number of binary digits of a non-negative int below 2^31.
BitLen(n) == CHOOSE L \in 0..31 :
                 /\ (L < 31 => n < Pow2(L))
                 /\ (L > 0 => n >= Pow2(L - 1))

\* the lowest `len` binary digits of n, most significant first.
FixedBin(n, len) == [i \in 1..len |-> (n \div Pow2(len - i)) % 2]

\* binary digits of a non-negative int, no leading zero (0 is <<>>).
Bin(n) == FixedBin(n, BitLen(n))

\* the int a bit sequence spells (below 2^31), by halving the sequence.
RECURSIVE BitsVal(_)
BitsVal(b) ==
    IF Len(b) = 0 THEN 0
    ELSE IF Len(b) = 1 THEN b[1]
    ELSE LET h == Len(b) \div 2
         IN BitsVal(SubSeq(b, 1, h)) * Pow2(Len(b) - h)
            + BitsVal(SubSeq(b, h + 1, Len(b)))

\* bits + 1, one bit longer when every bit was 1.
Inc(b) ==
    LET zeros == {i \in 1..Len(b) : b[i] = 0}
    IN IF zeros = {} THEN <<1>> \o [i \in 1..Len(b) |-> 0]
       ELSE LET k == CHOOSE i \in zeros : \A j \in zeros : j <= i
            IN [i \in 1..Len(b) |->
                   IF i < k THEN b[i] ELSE IF i = k THEN 1 ELSE 0]

\* a mantissa that rounding up has made one bit longer drops its last bit
\* (a zero) and the exponent goes up by one.
Renormalize(m, e) ==
    IF Len(m) > MantBits THEN [m |-> SubSeq(m, 1, MantBits), e |-> e + 1]
    ELSE [m |-> m, e |-> e]

\* Round-to-nearest, ties-to-even of the exact value
\* (bits + fraction) * 2^e to 53 bits, where `bits` are the leading 53 bits
\* and `up`, `tie` say how the dropped part compares with one half.
RoundNearestEven(bits, e, up, tie) ==
    IF up \/ (tie /\ bits[Len(bits)] = 1) THEN Renormalize(Inc(bits), e)
    ELSE [m |-> bits, e |-> e]

\* the same, the dropped part given as what long division by D has left.
RoundByRest(bits, e, rest, D) ==
    RoundNearestEven(bits, e, 2 * rest > D, 2 * rest = D)

\* the i-th binary digit after the point of r/D (0 <= r < D, i >= 1);
\* r * 2^(i-1) mod D is what long division has left before that digit.
FracDigit(r, D, i) ==
    IF 2 * ((r * Pow2Mod(i - 1, D)) % D) >= D THEN 1 ELSE 0

\* what long division of r by D has left after i binary digits.
FracRest(r, D, i) == (r * Pow2Mod(i, D)) % D

\* the number of zero binary digits of r/D (0 < r < D) before its first 1.
LeadingZeros(r, D) ==
    (CHOOSE i \in 1..(BitLen(D) + 1) :
        /\ FracDigit(r, D, i) = 1
        /\ \A j \in 1..(i - 1) : FracDigit(r, D, j) = 0) - 1

\* the double nearest to q + r/D, the whole part q > 0 given in binary.
FloatFromWhole(ib, r, D) ==
    RoundByRest(ib \o [i \in 1..(MantBits - Len(ib)) |-> FracDigit(r, D, i)],
                Len(ib) - MantBits,
                FracRest(r, D, MantBits - Len(ib)), D)

\* the double nearest to r/D (0 < r < D), which has z zero binary digits
\* before its first 1.
FloatFromFraction(r, D, z) ==
    RoundByRest([i \in 1..MantBits |-> FracDigit(r, D, z + i)],
                0 - (z + MantBits),
                FracRest(r, D, z + MantBits), D)

\* the double nearest to n/D (correctly rounded, as float() of a decimal
\* literal is), for ints n >= 0 and D > 0 with D * D below 2^31.
FloatOfRatio(n, D) ==
    IF n = 0 THEN FZero
    ELSE IF n >= D THEN FloatFromWhole(Bin(n \div D), n % D, D)
    ELSE FloatFromFraction(n, D, LeadingZeros(n, D))

\* bits * c + carry for a small int c > 0: long multiplication in limbs
\* of 18 bits (a limb times c fits an int), from the least significant limb.
RECURSIVE MulSmall(_, _, _)
MulSmall(b, c, carry) ==
    IF Len(b) = 0 THEN Bin(carry)
    ELSE LET n == Len(b)
             low == IF n < 18 THEN n ELSE 18
             t == BitsVal(SubSeq(b, n - low + 1, n)) * c + carry
         IN MulSmall(SubSeq(b, 1, n - low), c, t \div Pow2(low))
            \o FixedBin(t % Pow2(low), low)

AnyOne(b) == \E i \in 1..Len(b) : b[i] = 1

\* the exact product p (53 bits or more) times 2^e, rounded to a double.
RoundProduct(p, e) ==
    IF Len(p) = MantBits THEN [m |-> p, e |-> e]
    ELSE RoundNearestEven(
             SubSeq(p, 1, MantBits), e + Len(p) - MantBits,
             p[MantBits + 1] = 1 /\ AnyOne(SubSeq(p, MantBits + 2, Len(p))),
             p[MantBits + 1] = 1 /\ ~AnyOne(SubSeq(p, MantBits + 2, Len(p))))

\* x * (c * 2^k), correctly rounded: the float product of a double x and a
\* double whose value is the small int c times a power of two.
FloatMul(x, c, k) ==
    IF x.m = <<>> THEN FZero
    ELSE RoundProduct(MulSmall(x.m, c, 0), x.e + k)

\* math.ceil of a double below 2^31, an int.
FloatCeil(x) ==
    IF x.m = <<>> THEN 0
    ELSE IF MantBits + x.e <= 0 THEN 1
    ELSE BitsVal(SubSeq(x.m, 1, MantBits + x.e))
         + (IF AnyOne(SubSeq(x.m, MantBits + x.e + 1, MantBits))
            THEN 1 ELSE 0)

\* the double nearest to the decimal number whole.frac.
FloatOfDecimal(whole, frac) ==
    FloatOfRatio(DecVal(whole \o frac), Pow(10, Len(frac)))

\* float(text) for text of digits with at most one ".": the double nearest
\* to the decimal number.
ParseFloat(s) ==
    FloatOfDecimal(Split(s, ".")[1],
                   IF Len(Split(s, ".")) > 1 THEN Split(s, ".")[2] ELSE <<>>)

\* str(c / 100.0) for an int c >= 0: the shortest decimal that reads back
\* as the double nearest to c/100, which is c/100 written with its trailing
\* zero dropped and at least one digit after the point.
StrOfHundredths(c) ==
    DecStr(c \div 100) \o <<".">> \o
        (IF c % 10 = 0 THEN <<Digits[((c % 100) \div 10) + 1]>>
         ELSE <<Digits[((c % 100) \div 10) + 1], Digits[(c % 10) + 1]>>)

(***************************************************************************)
(* transform_to_mb                                                         *)
(***************************************************************************)
U_KB == <<"K", "B">>
U_Bytes == <<"B", "y", "t", "e", "s">>
U_MB == <<"M", "B">>
U_GB == <<"G", "B">>
U_TB == <<"T", "B">>
U_PB == <<"P", "B">>

\* unit -> its ratio to MB, the float c * 2^k.
conversion_dict ==
    (U_KB :> [c |-> 1, k |-> -10]) @@ (U_Bytes :> [c |-> 1, k |-> -20]) @@
    (U_MB :> [c |-> 1, k |-> 0]) @@ (U_GB :> [c |-> 1, k |-> 10]) @@
    (U_TB :> [c |-> 1, k |-> 20])

\* ceil(number_value * 100): the size in hundredths of a MB, rounded up.
CeilHundredths(number_value) == FloatCeil(FloatMul(number_value, 100, 0))

\* the branch of transform_to_mb for a unit of conversion_dict, from the
\* value text and the unit's ratio.
ConvertValue(value, ratio) ==
    Replace(StrOfHundredths(
                CeilHundredths(
                    FloatMul(ParseFloat(Replace(value, ",", ".")),
                             ratio.c, ratio.k))),
            ".", ",")
    \o <<" ">> \o U_MB

transform_to_mb(size) ==
    IF Split(size, " ")[2] \in DOMAIN conversion_dict
    THEN ConvertValue(Split(size, " ")[1],
                      conversion_dict[Split(size, " ")[2]])
    ELSE size

(***************************************************************************)
(* Python dicts: a dict is the sequence of its <<key, value>> items in     *)
(* insertion order, keys distinct.                                         *)
(***************************************************************************)
Keys(d) == [i \in 1..Len(d) |-> d[i][1]]

HasKey(d, k) == \E i \in 1..Len(d) : d[i][1] = k

Get(d, k) == d[CHOOSE i \in 1..Len(d) : d[i][1] = k][2]

\* a Python list of texts (a text being a sequence of characters): the
\* mark "list", then the items.
PyList(items) == <<"list">> \o items

IsPyList(v) == Len(v) > 0 /\ v[1] = "list"

\* d[k] = v: an existing key keeps its place, a new key goes last.
DictSet(d, k, v) ==
    IF HasKey(d, k)
    THEN [i \in 1..Len(d) |-> IF d[i][1] = k THEN <<k, v>> ELSE d[i]]
    ELSE Append(d, <<k, v>>)

\* the concatenation of a sequence of sequences.
RECURSIVE Flatten(_)
Flatten(ss) == IF Len(ss) = 0 THEN <<>> ELSE Head(ss) \o Flatten(Tail(ss))

(***************************************************************************)
(* Paths and the file system.  `dirs` maps the absolute path of every      *)
(* directory to its listing (the names os.listdir and os.scandir return,   *)
(* in their order); `files` maps the absolute path of every file to what   *)
(* the file holds.                                                         *)
(***************************************************************************)
Sep == "/"

\* the working directory of the process, the root of the modelled tree.
Cwd == <<"/", "w">>

\* the root directory of the file system, which holds the working
\* directory.
FsRoot == <<"/">>

IsAbs(p) == Len(p) > 0 /\ p[1] = Sep

\* os.path.join(path, name): an absolute name starts afresh, and no
\* separator is added to an empty path or after a separator.
Join(p, n) ==
    IF IsAbs(n) THEN n
    ELSE IF Len(p) = 0 \/ p[Len(p)] = Sep THEN p \o n
    ELSE p \o <<Sep>> \o n

\* the components of a normalised path: empty components and "." are
\* dropped, ".." takes the component before it away (and is dropped at the
\* root); `done` are the components kept so far.
RECURSIVE NormComps(_, _)
NormComps(comps, done) ==
    IF Len(comps) = 0 THEN done
    ELSE NormComps(
             Tail(comps),
             IF Head(comps) = <<>> \/ Head(comps) = <<".">> THEN done
             ELSE IF Head(comps) = <<".", ".">>
             THEN SubSeq(done, 1, Len(done) - 1)
             ELSE Append(done, Head(comps)))

\* "/".join(comps).
RECURSIVE JoinComps(_)
JoinComps(comps) ==
    IF Len(comps) = 0 THEN <<>>
    ELSE IF Len(comps) = 1 THEN Head(comps)
    ELSE Head(comps) \o <<Sep>> \o JoinComps(Tail(comps))

\* os.path.normpath of an absolute path: one leading separator (two when
\* the path starts with exactly two), then the normalised components.
NormPath(p) ==
    (IF Len(p) >= 2 /\ p[2] = Sep /\ (Len(p) = 2 \/ p[3] # Sep)
     THEN <<Sep, Sep>> ELSE <<Sep>>)
    \o JoinComps(NormComps(Split(p, Sep), <<>>))

\* os.path.abspath(path): a relative path is taken from the working
\* directory, and the result is normalised.
AbsPath(p) == NormPath(IF IsAbs(p) THEN p ELSE Join(Cwd, p))

\* the place of the last separator of p, 0 when it has none.
LastSep(p) == CHOOSE i \in 0..Len(p) :
                  /\ i > 0 => p[i] = Sep
                  /\ \A j \in (i + 1)..Len(p) : p[j] # Sep

\* s without the separators at its end.
StripSeps(s) ==
    SubSeq(s, 1, CHOOSE i \in 0..Len(s) :
                     /\ i > 0 => s[i] # Sep
                     /\ \A j \in (i + 1)..Len(s) : s[j] = Sep)

\* os.path.dirname: p up to its last separator, without the separators at
\* the end unless there is nothing else; os.path.basename: what follows
\* the last separator.
DirName(p) ==
    IF StripSeps(SubSeq(p, 1, LastSep(p))) = <<>> THEN SubSeq(p, 1, LastSep(p))
    ELSE StripSeps(SubSeq(p, 1, LastSep(p)))
BaseName(p) == SubSeq(p, LastSep(p) + 1, Len(p))

\* os.path.splitext(name)[1]: from the last dot on, unless only dots
\* precede it.
SplitExt(name) ==
    LET dots == {i \in 1..Len(name) : name[i] = "."}
        last == CHOOSE i \in dots : \A j \in dots : j <= i
    IN IF dots = {} \/ (\A j \in 1..(last - 1) : name[j] = ".") THEN <<>>
       ELSE SubSeq(name, last, Len(name))

\* a listing after the entry name is added to it: os.listdir gives the
\* entries in the order of the file system, in which a new entry can
\* stand at any place.
InsertAt(listing, k, name) ==
    SubSeq(listing, 1, k - 1) \o <<name>> \o SubSeq(listing, k, Len(listing))

Listings(listing, name) ==
    {InsertAt(listing, k, name) : k \in 1..(Len(listing) + 1)}

\* one step of the look-up of a path from directory cur: nowhere (<<>>)
\* when cur is no directory, cur itself for "" and ".", the directory
\* above for "..", the entry of that name otherwise (there or not).
Step(ds, cur, comp) ==
    IF cur \notin DOMAIN ds THEN <<>>
    ELSE IF comp = <<>> \/ comp = <<".">> THEN cur
    ELSE IF comp = <<".", ".">> THEN DirName(cur)
    ELSE Join(cur, comp)

RECURSIVE Steps(_, _, _)
Steps(ds, cur, comps) ==
    IF Len(comps) = 0 THEN cur
    ELSE Steps(ds, Step(ds, cur, Head(comps)), Tail(comps))

\* the absolute path the system looks a path up to, component by
\* component, from the root or the working directory; <<>> when the path
\* is empty or leads through something that is no directory.
Locate(ds, p) ==
    IF Len(p) = 0 THEN <<>>
    ELSE Steps(ds, IF IsAbs(p) THEN FsRoot ELSE Cwd, Split(p, Sep))

Exists(ds, fl, p) == Locate(ds, p) \in (DOMAIN ds \cup DOMAIN fl)
IsDir(ds, p) == Locate(ds, p) \in DOMAIN ds
ListDir(ds, p) == ds[Locate(ds, p)]

\* p lies strictly below directory d.
IsUnder(p, d) ==
    LET prefix == IF d[Len(d)] = Sep THEN d ELSE d \o <<Sep>>
    IN Len(p) > Len(prefix) /\ SubSeq(p, 1, Len(prefix)) = prefix

\* how many directories lie between the working directory and p.
Depth(p) == Cardinality({i \in (Len(Cwd) + 1)..Len(p) : p[i] = Sep})

(***************************************************************************)
(* The shell metadata provider (win32com Shell.Application) and the e-book *)
(* reader (epub_meta) are outside the program; the model answers for them  *)
(* from fixed tables and from what a file holds.                           *)
(***************************************************************************)
Pfad == <<"P", "f", "a", "d">>
N_a == <<"A">>
N_b == <<"B">>
N_txt == <<"f", ".", "t", "x", "t">>
N_epub == <<"g", ".", "e", "p", "u", "b">>
N_csv == <<"c", "o", "n", "t", "e", "n", "t", "s", ".", "c", "s", "v">>

DirNames == {N_a, N_b}
FileNames == {N_txt, N_epub}

\* how many column ids are asked for: range(321).
ColumnCount == 321

ShellColumnIds == 0..(ColumnCount - 1)

\* folder.GetDetailsOf(None, colnum): the display name of a column.
ColumnName(colnum) ==
    CASE colnum = 0 -> <<"N", "a", "m", "e">>
      [] colnum = 1 -> <<"S", "i", "z", "e">>
      [] colnum = 2 -> <<"T", "i", "t", "l", "e">>
      [] colnum = 57 -> <<"T", "o", "t", "a", "l">>
      [] colnum = 165 -> <<"F", "i", "l", "e">>
      [] OTHER -> <<"c">> \o DecStr(colnum)

\* folder.GetDetailsOf(item, colnum): the value of a column for a file, by
\* the file's name; empty when the column does not apply to the file.
GetDetailsOf(name, colnum) ==
    CASE colnum = 0 -> name
      [] colnum = 1 -> IF name = N_epub THEN <<"1", ",", "1", " ", "M", "B">>
                       ELSE <<"1", ",", "9", "0", " ", "K", "B">>
      [] colnum = 2 -> IF name = N_epub THEN <<"T">> ELSE <<>>
      [] colnum = 57 -> <<"9", " ", "G", "B">>
      [] colnum = 165 -> name
      [] colnum = 320 -> IF name = N_epub THEN <<>> ELSE <<"x">>
      [] OTHER -> <<>>

\* what epub_meta.get_epub_metadata does with a file: it raises (ok is
\* FALSE) or returns the dict `meta`.
NotEpub == [ok |-> FALSE, meta |-> <<>>]

K_toc == <<"t", "o", "c">>
K_title == <<"t", "i", "t", "l", "e">>
K_chapters == <<"c", "h", "a", "p", "t", "e", "r", "s">>
K_epub_title == <<"e", "p", "u", "b", "_", "t", "i", "t", "l", "e">>
K_repub == <<"r", "e", "p", "u", "b">>
K_epub_chapters ==
    <<"e", "p", "u", "b", "_", "c", "h", "a", "p", "t", "e", "r", "s">>
EpubWord == <<"e", "p", "u", "b">>
EpubPrefix == <<"e", "p", "u", "b", "_">>

Toc1 == <<[title |-> <<"c", "1">>], [title |-> <<"c", "2">>]>>

GoodEpub == [ok |-> TRUE,
             meta |-> <<<<K_title, <<"t">>>>, <<K_toc, Toc1>>,
                        <<<<"l", "a", "n", "g">>, <<>>>>>>]

\* what a file holds: how the e-book reader fares on it, and its CSV rows
\* when it is a written contents.csv.
PlainFile == [reader |-> NotEpub, rows |-> <<>>]

(***************************************************************************)
(* go_recursive                                                            *)
(***************************************************************************)
\* the names in a directory's listing that are directories; none when
\* top cannot be listed.
SubDirs(ds, top) ==
    IF ~IsDir(ds, top) THEN <<>>
    ELSE SelectSeq(ListDir(ds, top), LAMBDA n : IsDir(ds, Join(top, n)))

\* the directories below top in pre-order: each followed by its whole
\* subtree.
RECURSIVE PreOrder(_, _)
PreOrder(ds, top) ==
    Flatten([i \in 1..Len(SubDirs(ds, top)) |->
                <<Join(top, SubDirs(ds, top)[i])>> \o
                PreOrder(ds, Join(top, SubDirs(ds, top)[i]))])

\* a walk that yields every directory when it is entered.
go_recursive_pre_order(ds, crawl_path) ==
    <<AbsPath(crawl_path)>> \o PreOrder(ds, AbsPath(crawl_path))

\* os.walk(top, topdown=True), without the file lists: top with its
\* directory names, then the walk of each of them in turn; nothing when
\* top cannot be listed.
RECURSIVE Walk(_, _)
Walk(ds, top) ==
    IF ~IsDir(ds, top) THEN <<>>
    ELSE LET names == SubDirs(ds, top)
         IN <<[root |-> top, dirs |-> names]>> \o
            Flatten([i \in 1..Len(names) |-> Walk(ds, Join(top, names[i]))])

\* the walk without the yield of crawl_path itself before the loop.
go_recursive_subdirectories(ds, crawl_path) ==
    LET walked == Walk(ds, AbsPath(crawl_path))
    IN Flatten([i \in 1..Len(walked) |->
                   [j \in 1..Len(walked[i].dirs) |->
                       Join(walked[i].root, walked[i].dirs[j])]])

go_recursive(ds, crawl_path) ==
    LET top == AbsPath(crawl_path)
        walked == Walk(ds, top)
    IN <<top>> \o
       Flatten([i \in 1..Len(walked) |->
                   [j \in 1..Len(walked[i].dirs) |->
                       Join(walked[i].root, walked[i].dirs[j])]])

(***************************************************************************)
(* InformationExtractor                                                    *)
(***************************************************************************)
skip_set == {37, 38, 39, 40, 41, 59, 170, 171, 205, 206, 207, 218, 296,
             57, 165, 169, 190, 191, 192, 196, 254}

\* set(range(321)) - skip_set in the order the loop meets it: ascending.
ColumnsKept ==
    SelectSeq([i \in 1..ColumnCount |-> i - 1],
              LAMBDA colnum : colnum \in ShellColumnIds \ skip_set)

\* the columns to query, as <<colnum, colname>>, in ascending colnum.
get_columns_to_parse ==
    [i \in 1..Len(ColumnsKept) |-> <<ColumnsKept[i], ColumnName(ColumnsKept[i])>>]

\* transform_to_mb of the sizes the shell reports, computed once.
ShellSizes == {GetDetailsOf(name, 1) : name \in DirNames \cup FileNames}
ShellSizesInMb == [size \in ShellSizes |-> transform_to_mb(size)]

\* one turn of the loop of extract_general_information: an empty value is
\* not stored, the size column (1) goes through transform_to_mb.
StoreColumn(this_file, colnum, column, colval) ==
    IF colval = <<>> THEN this_file
    ELSE DictSet(this_file, column,
                 IF colnum # 1 THEN colval
                 ELSE IF colval \in ShellSizes THEN ShellSizesInMb[colval]
                 ELSE transform_to_mb(colval))

\* the loop of extract_general_information over columns that have a
\* value for the file.
RECURSIVE StoreColumns(_, _, _)
StoreColumns(columns, this_file, name) ==
    IF Len(columns) = 0 THEN this_file
    ELSE StoreColumns(
             Tail(columns),
             StoreColumn(this_file, Head(columns)[1], Head(columns)[2],
                         GetDetailsOf(name, Head(columns)[1])),
             name)

\* the shell columns of one file, stored into this_file: the columns
\* without a value for the file leave it as it is.
extract_general_information(columns, this_file, name) ==
    StoreColumns(SelectSeq(columns,
                           LAMBDA col : GetDetailsOf(name, col[1]) # <<>>),
                 this_file, name)

\* the field of a key when only a leading "epub_" keeps the key as it is.
EpubColumnNameByPrefix(pub_key) ==
    IF pub_key = K_toc THEN K_epub_chapters
    ELSE IF Len(pub_key) >= Len(EpubPrefix)
            /\ SubSeq(pub_key, 1, Len(EpubPrefix)) = EpubPrefix THEN pub_key
    ELSE EpubPrefix \o pub_key

\* the field an e-book key is stored under.
EpubColumnName(pub_key) ==
    IF pub_key = K_toc THEN K_epub_chapters
    ELSE IF Contains(pub_key, EpubWord) THEN pub_key
    ELSE EpubPrefix \o pub_key

\* the value stored for an e-book key: the chapter titles for the table of
\* contents, the value itself otherwise.
EpubColumnValue(pub_key, value) ==
    IF pub_key = K_toc THEN PyList([i \in 1..Len(value) |-> value[i].title])
    ELSE value

\* the loop over the keys of the metadata: a key with an empty value is
\* passed over.
RECURSIVE MergeMeta(_, _)
MergeMeta(this_file, items) ==
    IF Len(items) = 0 THEN this_file
    ELSE LET pub_key == Head(items)[1]
             value == Head(items)[2]
         IN MergeMeta(
                IF value = <<>> THEN this_file
                ELSE DictSet(this_file, EpubColumnName(pub_key),
                             EpubColumnValue(pub_key, value)),
                Tail(items))

\* the read without the append to failed_ebooks in the except branch.
extract_epub_information_unrecorded(reader, this_file) ==
    IF reader.ok
    THEN [this_file |-> MergeMeta(this_file, reader.meta), failed |-> FALSE]
    ELSE [this_file |-> this_file, failed |-> FALSE]

\* extract_epub_information: the record after it, and whether the file
\* went onto failed_ebooks.
extract_epub_information(reader, this_file) ==
    IF reader.ok
    THEN [this_file |-> MergeMeta(this_file, reader.meta), failed |-> FALSE]
    ELSE [this_file |-> this_file, failed |-> TRUE]

\* the end of a turn that does not count the file.
AddRecordUncounted(st, this_file, failed_path) ==
    [folder_files |-> Append(st.folder_files, this_file),
     n_files |-> st.n_files,
     failed_ebooks |-> st.failed_ebooks \o failed_path]

\* the end of one turn of get_information's loop: the record this_file is
\* appended, the file counted, and its path put on failed_ebooks when it is
\* an e-book the reader failed on.
AddRecord(st, this_file, failed_path) ==
    [folder_files |-> Append(st.folder_files, this_file),
     n_files |-> st.n_files + 1,
     failed_ebooks |-> st.failed_ebooks \o failed_path]

AddEpubRecord(st, epub, file_path) ==
    AddRecord(st, epub.this_file,
              IF epub.failed THEN <<file_path>> ELSE <<>>)

\* one turn of the loop for a file (not a directory), `general` being its
\* record after extract_general_information.
ScanFile(ds, fl, dir_path, file_name, st, general) ==
    IF Contains(SplitExt(file_name), EpubWord)
    THEN AddEpubRecord(
             st,
             extract_epub_information(
                 fl[Locate(ds, Join(dir_path, file_name))].reader, general),
             Join(dir_path, file_name))
    ELSE AddRecord(st, general, <<>>)

\* a turn of the loop without the test for directories.
ScanEntryOfAnyKind(ds, fl, dir_path, file_name, st) ==
    AddRecord(st,
              extract_general_information(
                  get_columns_to_parse,
                  <<<<Pfad, Join(AbsPath(dir_path), file_name)>>>>,
                  file_name),
              <<>>)

\* one turn of the loop of get_information, for the entry file_name of
\* dir_path, from the state st = [folder_files, n_files, failed_ebooks].
ScanEntry(ds, fl, dir_path, file_name, st) ==
    IF IsDir(ds, Join(AbsPath(dir_path), file_name)) THEN st
    ELSE ScanFile(ds, fl, dir_path, file_name, st,
                  extract_general_information(
                      get_columns_to_parse,
                      <<<<Pfad, Join(AbsPath(dir_path), file_name)>>>>,
                      file_name))

RECURSIVE ScanEntries(_, _, _, _, _)
ScanEntries(ds, fl, dir_path, names, st) ==
    IF Len(names) = 0 THEN st
    ELSE ScanEntries(ds, fl, dir_path, Tail(names),
                     ScanEntry(ds, fl, dir_path, Head(names), st))

\* what a successful get_information leaves: the list returned, the
\* extractor afterwards and the directory handed to the shell.
Scanned(ex, dir_path, st) ==
    [raised |-> "", result |-> st.folder_files,
     ex |-> [n_files |-> st.n_files, n_dirs |-> ex.n_dirs + 1,
             failed_ebooks |-> st.failed_ebooks],
     namespaces |-> <<dir_path>>]

\* get_information that counts the directory before it checks the path.
get_information_counting_first(ds, fl, ex, dir_path) ==
    IF ~Exists(ds, fl, dir_path) \/ ~IsDir(ds, dir_path)
    THEN [raised |-> "FileNotFoundError", result |-> <<>>,
          ex |-> [ex EXCEPT !.n_dirs = @ + 1], namespaces |-> <<>>]
    ELSE Scanned(ex, dir_path,
                 ScanEntries(ds, fl, dir_path, ListDir(ds, dir_path),
                     [folder_files |-> <<>>, n_files |-> ex.n_files,
                      failed_ebooks |-> ex.failed_ebooks]))

\* get_information(dir_path) on an extractor ex = [n_files, n_dirs,
\* failed_ebooks]: the exception raised ("" for none), the list returned,
\* the extractor afterwards and the directories handed to the shell.
get_information(ds, fl, ex, dir_path) ==
    IF ~Exists(ds, fl, dir_path) \/ ~IsDir(ds, dir_path)
    THEN [raised |-> "FileNotFoundError", result |-> <<>>, ex |-> ex,
          namespaces |-> <<>>]
    ELSE Scanned(ex, dir_path,
                 ScanEntries(ds, fl, dir_path, ListDir(ds, dir_path),
                     [folder_files |-> <<>>, n_files |-> ex.n_files,
                      failed_ebooks |-> ex.failed_ebooks]))

(***************************************************************************)
(* get_field_names and write_csv                                           *)
(***************************************************************************)
\* the loops without the look-up in field_set: every key is appended.
CollectKeysUnchecked(field_names, keys) == field_names \o keys

\* the inner loops of get_field_names over the keys still to look at.
RECURSIVE CollectKeys(_, _)
CollectKeys(field_names, keys) ==
    IF Len(keys) = 0 THEN field_names
    ELSE CollectKeys(
             IF \E i \in 1..Len(field_names) : field_names[i] = Head(keys)
             THEN field_names
             ELSE Append(field_names, Head(keys)),
             Tail(keys))

get_field_names(records) ==
    CollectKeys(<<Pfad>>,
                Flatten([i \in 1..Len(records) |-> Keys(records[i])]))

\* repr of a list of texts without quotes in them: ['c1', 'c2'].
RECURSIVE ListItems(_)
ListItems(items) ==
    IF Len(items) = 0 THEN <<>>
    ELSE <<"'">> \o Head(items) \o <<"'">> \o
         (IF Len(items) > 1 THEN <<",", " ">> ELSE <<>>) \o
         ListItems(Tail(items))

\* the text the csv writer puts into a cell: a text as it is, anything else
\* through str().
CsvCell(value) ==
    IF IsPyList(value)
    THEN <<"[">> \o ListItems(Tail(value)) \o <<"]">>
    ELSE value

\* a row with no cell for a field the record lacks.
CsvRowPresentOnly(field_names, data) ==
    LET present == SelectSeq(field_names, LAMBDA f : HasKey(data, f))
    IN [j \in 1..Len(present) |-> CsvCell(Get(data, present[j]))]

\* csv.DictWriter.writerow: the cells of one record under the header, a
\* missing field left empty.
CsvRow(field_names, data) ==
    [j \in 1..Len(field_names) |->
        IF HasKey(data, field_names[j])
        THEN CsvCell(Get(data, field_names[j]))
        ELSE <<>>]

\* a record DictWriter refuses: it has a key that is no field of the header.
HasExtraKey(field_names, data) ==
    \E i \in 1..Len(data) :
        \A j \in 1..Len(field_names) : field_names[j] # data[i][1]

\* write_csv: the rows the file holds afterwards (the header, then the
\* records up to the first one refused) and the exception raised.
write_csv(records, field_names) ==
    LET bad == {i \in 1..Len(records) :
                   HasExtraKey(field_names, records[i])}
        stop == IF bad = {} THEN Len(records)
                ELSE (CHOOSE i \in bad : \A j \in bad : i <= j) - 1
    IN [rows |-> <<field_names>> \o
                 [i \in 1..stop |-> CsvRow(field_names, records[i])],
        raised |-> IF bad = {} THEN "" ELSE "ValueError"]

(***************************************************************************)
(* Bounds of the model                                                     *)
(***************************************************************************)
\* how many directories and files are created below the working directory.
MaxEntries == 4
\* how deep below the working directory a directory is created.
MaxDepth == 2
\* how many get_information calls are made on the extractor directly.
MaxCalls == 2

(***************************************************************************)
(* The state before anything runs                                          *)
(***************************************************************************)
NoFiles == [p \in {} |-> PlainFile]

MainInit ==
    /\ dirs = (FsRoot :> <<BaseName(Cwd)>>) @@ (Cwd :> <<>>)
    /\ files = NoFiles
    /\ pc = "idle"
    /\ target = <<>>
    /\ recursive = FALSE
    /\ pending = <<>>
    /\ all_files = <<>>
    /\ extractor = 0
    /\ n_files = 0
    /\ n_dirs = 0
    /\ failed_ebooks = <<>>
    /\ calls = <<>>
    /\ namespaces = <<>>
    /\ returned = <<>>
    /\ error = ""
    /\ summary = <<>>

MbIdle == mb_size = <<>> /\ mb_result = <<>> /\ mb_pc = "off"

FrIdle ==
    /\ fr_records = <<>>
    /\ fr_names = <<>>
    /\ fr_header = <<>>
    /\ fr_old = <<>>
    /\ fr_rows = <<>>
    /\ fr_error = ""
    /\ fr_pc = "off"

EpIdle ==
    /\ ep_reader = NotEpub
    /\ ep_before = <<>>
    /\ ep_after = <<>>
    /\ ep_failed = <<>>
    /\ ep_pc = "off"

(***************************************************************************)
(* Spec: the file system is set up, get_information is called on an        *)
(* extractor directly, and main runs.                                      *)
(***************************************************************************)
\* the directories and files below the working directory.
NumEntries == Cardinality({p \in DOMAIN dirs \cup DOMAIN files :
                              IsUnder(p, Cwd)})

\* the working directory and the directories below it.
WorkDirs == {p \in DOMAIN dirs : p = Cwd \/ IsUnder(p, Cwd)}

\* what a new file of a given name may hold: an e-book is well-formed or
\* malformed.
FileContents(name) ==
    IF Contains(SplitExt(name), EpubWord)
    THEN {PlainFile, [reader |-> GoodEpub, rows |-> <<>>]}
    ELSE {PlainFile}

\* the paths main is given: the working directory, a relative path with
\* a separator at its end that may be a directory, one that may be a file.
Targets == {Cwd, N_a \o <<Sep>>, N_txt}

\* the paths get_information is called with directly: the working
\* directory as ".", and a relative path that may be a file.
DirectTargets == {<<".">>, N_txt}

Mkdir(parent, name) ==
    /\ pc = "idle" /\ calls = <<>>
    /\ NumEntries < MaxEntries
    /\ Depth(parent) < MaxDepth
    /\ ~Exists(dirs, files, Join(parent, name))
    /\ \E listing \in Listings(dirs[parent], name) :
           dirs' = [p \in DOMAIN dirs \cup {Join(parent, name)} |->
                       IF p = Join(parent, name) THEN <<>>
                       ELSE IF p = parent THEN listing
                       ELSE dirs[p]]
    /\ UNCHANGED <<files, pc, target, recursive, pending, all_files,
                   extractor, n_files, n_dirs, failed_ebooks, calls,
                   namespaces, returned, error, summary>>
    /\ UNCHANGED <<mbVars, frVars, epVars>>

CreateFile(parent, name, content) ==
    /\ pc = "idle" /\ calls = <<>>
    /\ NumEntries < MaxEntries
    /\ ~Exists(dirs, files, Join(parent, name))
    /\ \E listing \in Listings(dirs[parent], name) :
           dirs' = [dirs EXCEPT ![parent] = listing]
    /\ files' = [p \in DOMAIN files \cup {Join(parent, name)} |->
                    IF p = Join(parent, name) THEN content ELSE files[p]]
    /\ UNCHANGED <<pc, target, recursive, pending, all_files,
                   extractor, n_files, n_dirs, failed_ebooks, calls,
                   namespaces, returned, error, summary>>
    /\ UNCHANGED <<mbVars, frVars, epVars>>

\* the extractor's fields as one value, and their update from one.
Extractor == [n_files |-> n_files, n_dirs |-> n_dirs,
              failed_ebooks |-> failed_ebooks]

\* what one call of get_information(dir_path), of outcome r, leaves on the
\* extractor.
GetInformationCall(dir_path, r) ==
    /\ n_files' = r.ex.n_files
    /\ n_dirs' = r.ex.n_dirs
    /\ failed_ebooks' = r.ex.failed_ebooks
    /\ calls' = Append(calls, <<dir_path, r.raised>>)
    /\ namespaces' = namespaces \o r.namespaces
    /\ returned' = returned \o r.result

\* get_information called directly, as the tests do.
DirectCall(dir_path) ==
    /\ pc = "idle"
    /\ Len(calls) < MaxCalls
    /\ \E r \in {get_information(dirs, files, Extractor, dir_path)} :
          /\ GetInformationCall(dir_path, r)
          /\ error' = r.raised
    /\ UNCHANGED <<dirs, files, pc, target, recursive, pending, all_files,
                   extractor, summary>>
    /\ UNCHANGED <<mbVars, frVars, epVars>>

\* main up to its loop: the options are checked, the extractor is built.
main_start(dir, rec) ==
    /\ pc = "idle"
    /\ target' = dir
    /\ recursive' = rec
    /\ IF ~Exists(dirs, files, dir) \/ ~IsDir(dirs, dir)
       THEN /\ pc' = "failed"
            /\ error' = "FileNotFoundError"
            /\ UNCHANGED <<pending, all_files, extractor, n_files, n_dirs,
                           failed_ebooks, calls, namespaces, returned>>
       ELSE /\ pc' = "extract"
            /\ error' = ""
            /\ all_files' = <<>>
            /\ extractor' = extractor + 1
            /\ n_files' = 0
            /\ n_dirs' = 0
            /\ failed_ebooks' = <<>>
            /\ calls' = <<>>
            /\ namespaces' = <<>>
            /\ returned' = <<>>
            /\ pending' = IF rec THEN go_recursive(dirs, dir) ELSE <<dir>>
    /\ UNCHANGED <<dirs, files, summary>>
    /\ UNCHANGED <<mbVars, frVars, epVars>>

\* one turn of main's loop: the next directory is extracted.
main_extract ==
    /\ pc = "extract"
    /\ Len(pending) > 0
    /\ \E r \in {get_information(dirs, files, Extractor, Head(pending))} :
          /\ GetInformationCall(Head(pending), r)
          /\ error' = r.raised
          /\ pc' = IF r.raised = "" THEN "extract" ELSE "failed"
          /\ all_files' = all_files \o r.result
    /\ pending' = Tail(pending)
    /\ UNCHANGED <<dirs, files, target, recursive, extractor, summary>>
    /\ UNCHANGED <<mbVars, frVars, epVars>>

\* the end of main: the field names, the CSV file, the summary.
main_write ==
    /\ pc = "extract"
    /\ Len(pending) = 0
    /\ LET field_names == get_field_names(all_files)
           csv_path == Locate(dirs, Join(target, N_csv))
           w == write_csv(all_files, field_names)
       IN /\ files' = [p \in DOMAIN files \cup {csv_path} |->
                          IF p = csv_path
                          THEN [reader |-> NotEpub, rows |-> w.rows]
                          ELSE files[p]]
          /\ IF csv_path \in DOMAIN files THEN dirs' = dirs
             ELSE \E listing \in Listings(dirs[DirName(csv_path)], N_csv) :
                      dirs' = [dirs EXCEPT ![DirName(csv_path)] = listing]
          /\ error' = w.raised
          /\ pc' = IF w.raised = "" THEN "done" ELSE "failed"
          /\ summary' = IF w.raised = ""
                        THEN [files |-> n_files, dirs |-> n_dirs,
                              failures |-> Len(failed_ebooks)]
                        ELSE summary
    /\ UNCHANGED <<target, recursive, pending, all_files, extractor,
                   n_files, n_dirs, failed_ebooks, calls, namespaces,
                   returned>>
    /\ UNCHANGED <<mbVars, frVars, epVars>>

Init == MainInit /\ MbIdle /\ FrIdle /\ EpIdle

Next ==
    \/ \E parent \in WorkDirs, name \in DirNames : Mkdir(parent, name)
    \/ \E parent \in WorkDirs, name \in FileNames :
           \E content \in FileContents(name) :
               CreateFile(parent, name, content)
    \/ \E dir_path \in DirectTargets : DirectCall(dir_path)
    \/ \E dir \in Targets, rec \in BOOLEAN : main_start(dir, rec)
    \/ main_extract
    \/ main_write

Spec == Init /\ [][Next]_vars

(***************************************************************************)
(* SpecMb: transform_to_mb applied to one size text.                       *)
(***************************************************************************)
\* the largest whole part of the sizes converted.
MaxWhole == 3
\* how many digits follow the comma at most.
MaxFracDigits == 2

Units == {U_Bytes, U_KB, U_MB, U_GB, U_TB, U_PB}

\* the texts of k decimal digits.
RECURSIVE DigitTexts(_)
DigitTexts(k) ==
    IF k = 0 THEN {<<>>}
    ELSE {Append(t, d) : t \in DigitTexts(k - 1), d \in DigitSet}

\* the comma-decimal numbers converted: a whole part, alone or followed by
\* a comma and digits.
NumberTexts ==
    {DecStr(w) : w \in 0..MaxWhole} \cup
    {DecStr(w) \o <<",">> \o f :
        w \in 0..MaxWhole,
        f \in UNION {DigitTexts(k) : k \in 1..MaxFracDigits}}

MbInit ==
    /\ mb_pc = "input"
    /\ mb_result = <<>>
    /\ mb_size \in {n \o <<" ">> \o u : n \in NumberTexts, u \in Units}

Convert ==
    /\ mb_pc = "input"
    /\ mb_result' = transform_to_mb(mb_size)
    /\ mb_pc' = "done"
    /\ UNCHANGED mb_size
    /\ UNCHANGED <<mainVars, frVars, epVars>>

InitMb == MbInit /\ MainInit /\ FrIdle /\ EpIdle

NextMb == Convert

SpecMb == InitMb /\ [][NextMb]_vars

(***************************************************************************)
(* SpecCsv: get_field_names on a list of records, then write_csv of the    *)
(* records under a header onto a file that may hold something already.     *)
(***************************************************************************)
\* how many records the list holds at most.
MaxRecords == 2
\* how many keys a record has at most.
MaxKeys == 2

K_a == <<"a">>
K_b == <<"b">>
K_c == <<"c">>

KeyPool == {Pfad, K_a, K_b, K_c}

\* the sequences of at most k distinct keys of the pool.
RECURSIVE KeyLists(_)
KeyLists(k) ==
    IF k = 0 THEN {<<>>}
    ELSE KeyLists(k - 1) \cup
         {Append(l, key) : l \in {m \in KeyLists(k - 1) : Len(m) = k - 1},
                           key \in KeyPool}

NoRepeat(l) == \A i, j \in 1..Len(l) : l[i] = l[j] => i = j

\* the record number i of a list with the given keys: the value of a key
\* is the key followed by i.
RecordOf(keys, i) == [j \in 1..Len(keys) |-> <<keys[j], keys[j] \o DecStr(i)>>]

\* the lists of at most k records.
RECURSIVE RecordLists(_)
RecordLists(k) ==
    IF k = 0 THEN {<<>>}
    ELSE RecordLists(k - 1) \cup
         {Append(l, RecordOf(keys, k)) :
             l \in {m \in RecordLists(k - 1) : Len(m) = k - 1},
             keys \in {q \in KeyLists(MaxKeys) : NoRepeat(q)}}

\* what the file holds before the write: nothing, or the rows of an
\* earlier write.
OldRows == {<<>>, <<<<Pfad>>, <<<<"o", "l", "d">>>>, <<<<"o", "l", "d">>>>>>}

CsvInit ==
    /\ fr_pc = "input"
    /\ fr_records \in RecordLists(MaxRecords)
    /\ fr_old \in OldRows
    /\ fr_rows = fr_old
    /\ fr_names = <<>>
    /\ fr_header = <<>>
    /\ fr_error = ""

\* the headers write_csv is given: the collected field names, the same in
\* reverse, with one more field, and without their last field.
Headers(names) ==
    {names,
     [i \in 1..Len(names) |-> names[Len(names) + 1 - i]],
     Append(names, <<"z">>),
     SubSeq(names, 1, Len(names) - 1)}

FieldNames ==
    /\ fr_pc = "input"
    /\ fr_names' = get_field_names(fr_records)
    /\ fr_pc' = "named"
    /\ UNCHANGED <<fr_records, fr_header, fr_old, fr_rows, fr_error>>
    /\ UNCHANGED <<mainVars, mbVars, epVars>>

WriteCsv(header, w) ==
    /\ fr_pc = "named"
    /\ fr_header' = header
    /\ fr_rows' = w.rows
    /\ fr_error' = w.raised
    /\ fr_pc' = "written"
    /\ UNCHANGED <<fr_records, fr_names, fr_old>>
    /\ UNCHANGED <<mainVars, mbVars, epVars>>

InitCsv == CsvInit /\ MainInit /\ MbIdle /\ EpIdle

NextCsv ==
    \/ FieldNames
    \/ \E header \in Headers(fr_names) :
           WriteCsv(header, write_csv(fr_records, header))

SpecCsv == InitCsv /\ [][NextCsv]_vars

(***************************************************************************)
(* SpecEpub: extract_epub_information on one e-book and one record.        *)
(***************************************************************************)
\* how many keys the metadata of an e-book has at most.
MaxMetaKeys == 2

MetaKeys == {K_title, K_toc, K_chapters, K_epub_title, K_repub}

\* the values the reader gives a key: empty or not.
MetaValues(key) ==
    IF key = K_toc THEN {<<>>, Toc1} ELSE {<<>>, <<"v">> \o key}

\* the metadata dicts of at most k keys.
RECURSIVE Metas(_)
Metas(k) ==
    IF k = 0 THEN {<<>>}
    ELSE Metas(k - 1) \cup
         {Append(m, <<key, value>>) :
             m \in {d \in Metas(k - 1) : Len(d) = k - 1},
             key \in MetaKeys, value \in UNION {MetaValues(q) : q \in MetaKeys}}

\* a dict: its keys are distinct and each value is one the reader gives
\* the key.
IsMeta(m) ==
    /\ NoRepeat(Keys(m))
    /\ \A i \in 1..Len(m) : m[i][2] \in MetaValues(m[i][1])

E_path == Join(Cwd, N_epub)

\* the record before the e-book is read: the path alone, with shell
\* columns, or with a shell column whose name has "epub" inside.
RecordsBefore ==
    {<<<<Pfad, E_path>>>>,
     extract_general_information(get_columns_to_parse, <<<<Pfad, E_path>>>>,
                                 N_epub),
     <<<<Pfad, E_path>>, <<K_repub, <<"s">>>>>>}

EpubInit ==
    /\ ep_pc = "input"
    /\ ep_reader \in {NotEpub} \cup
                     {[ok |-> TRUE, meta |-> m] :
                         m \in {d \in Metas(MaxMetaKeys) : IsMeta(d)}}
    /\ ep_before \in RecordsBefore
    /\ ep_after = <<>>
    /\ ep_failed = <<>>

ExtractEpub(r) ==
    /\ ep_pc = "input"
    /\ ep_after' = r.this_file
    /\ ep_failed' = IF r.failed THEN Append(ep_failed, E_path) ELSE ep_failed
    /\ ep_pc' = "done"
    /\ UNCHANGED <<ep_reader, ep_before>>
    /\ UNCHANGED <<mainVars, mbVars, frVars>>

InitEpub == EpubInit /\ MainInit /\ MbIdle /\ FrIdle

NextEpub ==
    \E r \in {extract_epub_information(ep_reader, ep_before)} : ExtractEpub(r)

SpecEpub == InitEpub /\ [][NextEpub]_vars

\* the exponent k of a unit's ratio 2^k to megabytes: 1/1048576, 1/1024, 1,
\* 1024, 1048576.
RatioExponent(unit) ==
    CASE unit = U_Bytes -> -20
      [] unit = U_KB -> -10
      [] unit = U_MB -> 0
      [] unit = U_GB -> 10
      [] unit = U_TB -> 20

\* the least int c with c/100 >= n / 10^d * 2^k, in exact integer
\* arithmetic: the ceiling of n * A / B for
\* A = 10^max(2-d,0) * 2^max(k,0) and B = 10^max(d-2,0) * 2^max(-k,0).
ExactHundredths(n, d, k) ==
    LET A == Pow(10, IF d < 2 THEN 2 - d ELSE 0) * Pow2(IF k > 0 THEN k ELSE 0)
        B == Pow(10, IF d > 2 THEN d - 2 ELSE 0) * Pow2(IF k < 0 THEN 0 - k ELSE 0)
    IN (n \div B) * A + ((n % B) * A + B - 1) \div B

\* the exact size in hundredths of a MB, rounded up, of a value text with a
\* comma and a unit.
ExactSize(value, unit) ==
    LET parts == Split(value, ",")
        frac == IF Len(parts) > 1 THEN parts[2] ELSE <<>>
    IN ExactHundredths(DecVal(parts[1] \o frac), Len(frac),
                       RatioExponent(unit))

\* the hundredths of a MB that a result text "<m> MB" states.
StatedHundredths(result) ==
    LET parts == Split(Split(result, " ")[1], ",")
        frac == IF Len(parts) > 1 THEN parts[2] ELSE <<>>
    IN DecVal(parts[1]) * 100
       + (IF Len(frac) = 0 THEN 0
          ELSE IF Len(frac) = 1 THEN 10 * DecVal(frac)
          ELSE DecVal(frac))

\* C7: for a unit among Bytes, KB, MB, GB, TB, transform_to_mb returns
\* "<m> MB" with m the smallest multiple of 0.01 that is at least the number
\* times the unit's ratio to megabytes; for any other unit it returns the
\* input unchanged.
C7_SmallestMultipleNotBelow ==
    mb_pc = "done" =>
        LET value == Split(mb_size, " ")[1]
            unit == Split(mb_size, " ")[2]
        IN IF unit \in {U_Bytes, U_KB, U_MB, U_GB, U_TB}
           THEN /\ Split(mb_result, " ")[2] = U_MB
                /\ StatedHundredths(mb_result) = ExactSize(value, unit)
           ELSE mb_result = mb_size

(***************************************************************************)
(* get_field_names and write_csv (SpecCsv)                                 *)
(***************************************************************************)
KeyAt(i, j) == fr_records[i][j][1]

KeyPlaces == {ij \in (1..Len(fr_records)) \X (1..(MaxKeys + 1)) :
                 ij[2] <= Len(fr_records[ij[1]])}

AllKeys == {KeyAt(ij[1], ij[2]) : ij \in KeyPlaces}

\* x is met before y when the records are read in list order and the keys
\* of each in the record's order.
FirstMetBefore(x, y) ==
    \E p \in KeyPlaces :
        /\ KeyAt(p[1], p[2]) = x
        /\ \A q \in KeyPlaces :
               KeyAt(q[1], q[2]) = y =>
                   (p[1] < q[1] \/ (p[1] = q[1] /\ p[2] < q[2]))

\* C2: get_field_names returns a list that starts with "Pfad", holds no
\* name twice, holds exactly "Pfad" and the keys of all the records, and
\* has the names other than "Pfad" in the order they are first met.
C2_FieldNames ==
    fr_pc # "input" =>
        /\ Len(fr_names) >= 1 /\ fr_names[1] = Pfad
        /\ \A i, j \in 1..Len(fr_names) : fr_names[i] = fr_names[j] => i = j
        /\ {fr_names[i] : i \in 1..Len(fr_names)} = {Pfad} \cup AllKeys
        /\ \A i, j \in 2..Len(fr_names) :
               i < j => FirstMetBefore(fr_names[i], fr_names[j])

\* two records share a key, "Pfad" is a key that is not the first of its
\* record, and the names are collected.
C2_Witness ==
    /\ fr_pc = "named"
    /\ Len(fr_records) = 2
    /\ \E j, k \in 1..MaxKeys :
           /\ j <= Len(fr_records[1]) /\ k <= Len(fr_records[2])
           /\ KeyAt(1, j) = KeyAt(2, k)
    /\ \E p \in KeyPlaces : p[2] > 1 /\ KeyAt(p[1], p[2]) = Pfad
    /\ Len(fr_names) >= 3

\* every key of every record is a field of the header given to write_csv.
HeaderCovers ==
    AllKeys \subseteq {fr_header[i] : i \in 1..Len(fr_header)}

\* the cell of record i under field f: the record's value for f, or empty.
ExpectedCell(i, f) ==
    IF \E j \in 1..Len(fr_records[i]) : KeyAt(i, j) = f
    THEN fr_records[i][CHOOSE j \in 1..Len(fr_records[i]) : KeyAt(i, j) = f][2]
    ELSE <<>>

\* C8: under a header that holds every key of every record, write_csv
\* leaves in the file exactly the header row and one row per record in
\* order, each cell the record's value for the field or empty, whatever the
\* file held before; under the header get_field_names returns, it does not
\* fail.
C8_WriteCsv ==
    fr_pc = "written" =>
        /\ HeaderCovers =>
              /\ fr_error = ""
              /\ Len(fr_rows) = Len(fr_records) + 1
              /\ fr_rows[1] = fr_header
              /\ \A i \in 1..Len(fr_records) :
                     /\ Len(fr_rows[i + 1]) = Len(fr_header)
                     /\ \A c \in 1..Len(fr_header) :
                            fr_rows[i + 1][c] = ExpectedCell(i, fr_header[c])
        /\ fr_header = fr_names => fr_error = ""

\* the file held rows, and two records were written under a header that is
\* not the collected one, one of them lacking a field of the header.
C8_Witness ==
    /\ fr_pc = "written"
    /\ HeaderCovers
    /\ fr_old # <<>>
    /\ fr_header # fr_names
    /\ Len(fr_records) = 2
    /\ Len(fr_rows) = 3
    /\ \E c \in 1..Len(fr_header) :
           fr_rows[2][c] = <<>> /\ fr_rows[3][c] # <<>>

(***************************************************************************)
(* extract_epub_information (SpecEpub)                                     *)
(***************************************************************************)
\* the places of the metadata whose value is not empty.
Stored == {i \in 1..Len(ep_reader.meta) : ep_reader.meta[i][2] # <<>>}

MetaKey(i) == ep_reader.meta[i][1]

StartsWith(s, prefix) ==
    Len(s) >= Len(prefix) /\ SubSeq(s, 1, Len(prefix)) = prefix

\* the field the claim gives a key: the key itself if it begins with
\* "epub_", the prefix followed by the key otherwise, "epub_chapters" for
\* the table of contents.
PrefixedName(key) ==
    IF key = K_toc THEN K_epub_chapters
    ELSE IF StartsWith(key, EpubPrefix) THEN key
    ELSE EpubPrefix \o key

\* the field the code gives a key: the key itself if "epub" occurs in it
\* anywhere.
StoredName(key) ==
    IF key = K_toc THEN K_epub_chapters
    ELSE IF \E i \in 1..(Len(key) - 3) : SubSeq(key, i, i + 3) = EpubWord
    THEN key
    ELSE EpubPrefix \o key

\* the value stored for the metadata at place i.
StoredValue(i) ==
    IF MetaKey(i) = K_toc
    THEN <<"list">> \o [j \in 1..Len(ep_reader.meta[i][2]) |->
                           ep_reader.meta[i][2][j].title]
    ELSE ep_reader.meta[i][2]

FieldsOf(d) == {d[i][1] : i \in 1..Len(d)}

ValueOf(d, f) == d[CHOOSE i \in 1..Len(d) : d[i][1] = f][2]

\* C9 as stated: every non-empty key is stored under its "epub_"-prefixed
\* name (itself if it begins with the prefix), the table of contents under
\* "epub_chapters" as the chapter titles, empty values are not stored, no
\* field of the record whose name does not begin with the prefix is
\* overwritten, and no two keys end up in the same field.
C9_PrefixedNoCollision ==
    (ep_pc = "done" /\ ep_reader.ok) =>
        /\ \A i \in Stored :
               /\ PrefixedName(MetaKey(i)) \in FieldsOf(ep_after)
               /\ ValueOf(ep_after, PrefixedName(MetaKey(i))) = StoredValue(i)
        /\ FieldsOf(ep_after) =
               FieldsOf(ep_before) \cup {PrefixedName(MetaKey(i)) : i \in Stored}
        /\ \A f \in FieldsOf(ep_before) :
               ~StartsWith(f, EpubPrefix) =>
                   ValueOf(ep_after, f) = ValueOf(ep_before, f)
        /\ \A i, j \in Stored :
               i # j => PrefixedName(MetaKey(i)) # PrefixedName(MetaKey(j))

\* C9 amended: every non-empty key is stored under the key itself if
\* "epub" occurs anywhere in it and under "epub_" followed by the key
\* otherwise, the table of contents under "epub_chapters" as the chapter
\* titles; a field holds the value of the last key stored under it; empty
\* values are not stored; the fields no key is stored under keep their
\* values, and the fields of the record keep their order, before the new
\* ones.
C9_StoredBySubstring ==
    (ep_pc = "done" /\ ep_reader.ok) =>
        /\ \A i \in Stored :
               /\ StoredName(MetaKey(i)) \in FieldsOf(ep_after)
               /\ (\A j \in Stored :
                       j > i => StoredName(MetaKey(j)) # StoredName(MetaKey(i)))
                  => ValueOf(ep_after, StoredName(MetaKey(i))) = StoredValue(i)
        /\ FieldsOf(ep_after) =
               FieldsOf(ep_before) \cup {StoredName(MetaKey(i)) : i \in Stored}
        /\ \A f \in FieldsOf(ep_before) :
               f \notin {StoredName(MetaKey(i)) : i \in Stored} =>
                   ValueOf(ep_after, f) = ValueOf(ep_before, f)
        /\ \A i, j \in 1..Len(ep_after) : ep_after[i][1] = ep_after[j][1] => i = j
        /\ \A i \in 1..Len(ep_before) : ep_after[i][1] = ep_before[i][1]
        /\ ep_failed = <<>>

\* an e-book whose key "repub" is stored unprefixed over the shell column
\* of that name, next to another key.
C9_Witness ==
    /\ ep_pc = "done" /\ ep_reader.ok
    /\ Cardinality(Stored) = 2
    /\ \E i \in Stored : MetaKey(i) = K_repub
    /\ K_repub \in FieldsOf(ep_before)
    /\ ValueOf(ep_after, K_repub) # ValueOf(ep_before, K_repub)

(***************************************************************************)
(* The walk, the extraction and main (Spec)                                *)
(***************************************************************************)
Root == AbsPath(target)

\* the directories main extracts, in order: those done and those to come.
Visited == [i \in 1..Len(calls) |-> AbsPath(calls[i][1])] \o
           [i \in 1..Len(pending) |-> AbsPath(pending[i])]

InMain == pc \in {"extract", "done"}

PlaceIn(seq, x) == CHOOSE i \in 1..Len(seq) : seq[i] = x

\* C3: in recursive mode the directories go_recursive yields, and main
\* extracts, are the root and every directory below it, each once, and no
\* file; in non-recursive mode main extracts the root alone, once.
C3_RootAndDescendantsOnce ==
    /\ (InMain /\ recursive) =>
          LET v == Visited
              r == Root
          IN /\ \A i, j \in 1..Len(v) : v[i] = v[j] => i = j
             /\ {v[i] : i \in 1..Len(v)} =
                    {r} \cup {d \in DOMAIN dirs : IsUnder(d, r)}
             /\ \A i \in 1..Len(v) : v[i] \notin DOMAIN files
    /\ (InMain /\ ~recursive) => Visited = <<Root>>
    /\ pc = "done" =>
          /\ pending = <<>>
          /\ \A i \in 1..Len(calls) : calls[i][2] = ""

\* a recursive run over a root with two directories, one of them with a
\* directory of its own, and a file.
C3_Witness ==
    /\ pc = "done" /\ recursive
    /\ Len(calls) >= 4
    /\ \E i \in 1..Len(calls) : Depth(AbsPath(calls[i][1])) = 2
    /\ DOMAIN files # {Join(Root, N_csv)}

IsChild(p) == p # Root

\* two yielded directories other than the root that have the same parent.
Siblings(p, q) == IsChild(p) /\ IsChild(q) /\ DirName(p) = DirName(q)

\* in the sequence v of directories each one but the root comes after
\* its parent.
ParentFirst(v) ==
    \A k \in 1..Len(v) :
        IsChild(v[k]) => \E i \in 1..(k - 1) : v[i] = DirName(v[k])

\* C4 as stated: the root first, every directory after its parent, and the
\* whole subtree of a directory before any later sibling of it.
C4_PreOrder ==
    (InMain /\ recursive) =>
        LET v == Visited
        IN /\ v[1] = Root
           /\ ParentFirst(v)
           /\ \A i, j, k \in 1..Len(v) :
                  (i < j /\ Siblings(v[i], v[j]) /\ IsUnder(v[k], v[i]))
                      => k < j

\* the name of the entry of directory c on the way to p, which lies below c.
NameToward(c, p) ==
    Split(SubSeq(p, Len(c) + (IF c[Len(c)] = Sep THEN 1 ELSE 2), Len(p)),
          Sep)[1]

\* directory p comes before directory q when every directory is followed
\* by its subtree: q lies below p, or they part at a directory that lists
\* the way to p before the way to q.
WalkedBefore(p, q) ==
    \/ IsUnder(q, p)
    \/ \E c \in DOMAIN dirs :
           /\ IsUnder(p, c) /\ IsUnder(q, c)
           /\ NameToward(c, p) # NameToward(c, q)
           /\ PlaceIn(dirs[c], NameToward(c, p))
                  < PlaceIn(dirs[c], NameToward(c, q))

\* C4 amended: the root first and every directory after its parent; the
\* directories of one parent are yielded together, in the order the parent
\* lists them, before any of their own directories; the groups come in the
\* order in which the walk enters their parents (for root R with A and B,
\* where A contains A1: R, A, B, A1).
C4_ChildrenInGroups ==
    (InMain /\ recursive) =>
        LET v == Visited
        IN /\ v[1] = Root
           /\ ParentFirst(v)
           /\ \A i, j \in 2..Len(v) :
                  i < j =>
                      IF DirName(v[i]) = DirName(v[j])
                      THEN PlaceIn(dirs[DirName(v[i])], BaseName(v[i]))
                               < PlaceIn(dirs[DirName(v[j])], BaseName(v[j]))
                      ELSE WalkedBefore(DirName(v[i]), DirName(v[j]))

\* a finished recursive run in which a directory with a directory of its
\* own is listed before another directory of the root.
C4_Witness ==
    /\ pc = "done" /\ recursive
    /\ \E i, j, k \in 1..Len(Visited) :
           /\ Siblings(Visited[i], Visited[j])
           /\ DirName(Visited[i]) = Root
           /\ PlaceIn(dirs[Root], BaseName(Visited[i]))
                  < PlaceIn(dirs[Root], BaseName(Visited[j]))
           /\ DirName(Visited[k]) = Visited[i]

CsvPath == AbsPath(Join(target, N_csv))

\* the path column of the data rows of the contents.csv just written.
PathColumn(rows) == [i \in 1..(Len(rows) - 1) |-> rows[i + 1][1]]

\* the files main is to list, as they are when the scan starts: all below
\* the root, or those right in it.
FilesToList ==
    IF recursive THEN {p \in DOMAIN files : IsUnder(p, Root)}
    ELSE {p \in DOMAIN files : DirName(p) = Root}

RowsAsWalked(paths) ==
    /\ \A i, j \in 1..Len(paths) : paths[i] = paths[j] => i = j
    /\ {paths[i] : i \in 1..Len(paths)} = FilesToList
    /\ \A i, j \in 1..Len(paths) :
           i < j => PlaceIn(Visited, DirName(paths[i]))
                        <= PlaceIn(Visited, DirName(paths[j]))

\* C1: the contents.csv main writes has "Pfad" as its first column and one
\* data row for each file below the root (recursive) or right in the root
\* (non-recursive) as the tree is when main scans it, none twice and no
\* directory, with the file's full path in the path column, the rows of a
\* directory yielded earlier before those of one yielded later.
C1_RowsAreTheFiles ==
    [][(pc = "extract" /\ pc' = "done") =>
          /\ CsvPath \in DOMAIN files'
          /\ files'[CsvPath].rows[1][1] = Pfad
          /\ RowsAsWalked(PathColumn(files'[CsvPath].rows))]_vars

\* a recursive run has written rows for files of the root and of a
\* directory below it, next to a directory without files.
C1_Witness ==
    /\ pc = "done" /\ recursive
    /\ Len(calls) >= 3
    /\ LET paths == PathColumn(files[CsvPath].rows)
       IN /\ Len(paths) >= 2
          /\ \E i, j \in 1..Len(paths) :
                 DirName(paths[i]) = Root /\ DirName(paths[j]) # Root

\* the entries of a directory's listing that are no directories.
FilesIn(d) ==
    SelectSeq(ListDir(dirs, d),
              LAMBDA n : Join(AbsPath(d), n) \notin DOMAIN dirs)

HasEpubExtension(n) ==
    \E k \in 1..Len(n) :
        /\ n[k] = "."
        /\ \A m \in (k + 1)..Len(n) : n[m] # "."
        /\ \E m \in 1..(k - 1) : n[m] # "."
        /\ \E m \in k..(Len(n) - 3) : SubSeq(n, m, m + 3) = EpubWord

\* the e-books of a directory the reader fails on, in listing order.
FailingEbooks(d) ==
    SelectSeq(FilesIn(d),
              LAMBDA n : HasEpubExtension(n)
                         /\ ~files[Join(AbsPath(d), n)].reader.ok)

\* a record holds the path and every shell column that is not empty.
HasShellColumns(rec, d, n) ==
    /\ rec[1] = <<Pfad, Join(AbsPath(d), n)>>
    /\ \A colnum \in ShellColumnIds \ skip_set :
           GetDetailsOf(n, colnum) # <<>> =>
               \E k \in 1..Len(rec) :
                   /\ rec[k][1] = ColumnName(colnum)
                   /\ colnum # 1 => rec[k][2] = GetDetailsOf(n, colnum)
                   /\ rec[k][2] # <<>>

\* this step is a call of get_information.
IsCall == Len(calls') = Len(calls) + 1

CalledPath == calls'[Len(calls')][1]

Raised == calls'[Len(calls')][2]

NewRecords == SubSeq(returned', Len(returned) + 1, Len(returned'))

\* C5: get_information on a directory does not raise whatever e-books the
\* reader fails on; it returns one record for every file of the directory,
\* in listing order, each with its path and its non-empty shell columns,
\* and failed_ebooks grows by the paths of the failing e-books, one entry
\* each, and by nothing else.
C5_FailingEbooksAreKept ==
    [][(IsCall /\ IsDir(dirs, CalledPath)) =>
          /\ Raised = ""
          /\ Len(NewRecords) = Len(FilesIn(CalledPath))
          /\ \A i \in 1..Len(NewRecords) :
                 HasShellColumns(NewRecords[i], CalledPath,
                                 FilesIn(CalledPath)[i])
          /\ failed_ebooks' =
                 failed_ebooks \o
                 [i \in 1..Len(FailingEbooks(CalledPath)) |->
                     Join(CalledPath, FailingEbooks(CalledPath)[i])]]_vars

\* an e-book the reader failed on, with a record of its own and a record
\* of a file listed after it in the same directory.
C5_Witness ==
    /\ Len(failed_ebooks) >= 1
    /\ \E i, j \in 1..Len(returned) :
           /\ i < j
           /\ returned[i][1][2] = AbsPath(failed_ebooks[1])
           /\ Len(returned[i]) > 1
           /\ DirName(returned[j][1][2]) = DirName(returned[i][1][2])

BadPath(p) == ~Exists(dirs, files, p) \/ ~IsDir(dirs, p)

\* C6: get_information on a path that does not exist or is no directory
\* raises FileNotFoundError and leaves n_dirs, n_files and failed_ebooks
\* as they were, with no query to the shell; main on such a path raises
\* FileNotFoundError, extracts nothing and leaves the files as they are,
\* contents.csv included.
C6_BadPathFailsFirst ==
    [][/\ (IsCall /\ BadPath(CalledPath)) =>
              /\ Raised = "FileNotFoundError"
              /\ error' = "FileNotFoundError"
              /\ UNCHANGED <<n_dirs, n_files, failed_ebooks, namespaces,
                             returned, dirs, files>>
       /\ (pc = "idle" /\ pc' # "idle" /\ BadPath(target')) =>
              /\ pc' = "failed"
              /\ error' = "FileNotFoundError"
              /\ UNCHANGED <<dirs, files, calls, namespaces, returned,
                             all_files, n_dirs, n_files, failed_ebooks,
                             summary>>
       /\ pc = "failed" => UNCHANGED mainVars]_vars

\* main has failed on a path that is a file, after a call of
\* get_information on the extractor that failed and one that did not.
C6_Witness ==
    /\ pc = "failed" /\ error = "FileNotFoundError"
    /\ AbsPath(target) \in DOMAIN files
    /\ Len(calls) = 2
    /\ calls[1][2] = "" /\ calls[2][2] = "FileNotFoundError"
    /\ n_dirs = 1

EpubRecords == {i \in 1..Len(returned) :
                   HasEpubExtension(BaseName(returned[i][1][2]))}

IsPrefix(s, t) == Len(s) <= Len(t) /\ SubSeq(t, 1, Len(s)) = s

\* C10: on one extractor n_files is the number of records the calls have
\* returned, n_dirs the number of calls that did not fail, and
\* failed_ebooks is no longer than the number of returned records of files
\* with "epub" in the extension; no counter goes down; the counts main
\* logs after a run are the number of data rows of contents.csv and the
\* number of directories extracted.
C10_Counters ==
    /\ [](/\ n_files = Len(returned)
          /\ n_dirs = Cardinality({i \in 1..Len(calls) : calls[i][2] = ""})
          /\ Len(failed_ebooks) <= Cardinality(EpubRecords)
          /\ Cardinality(EpubRecords) <= n_files
          /\ pc = "done" =>
                /\ summary.files = Len(files[CsvPath].rows) - 1
                /\ summary.dirs = Len(Visited)
                /\ summary.failures = Len(failed_ebooks))
    /\ [][extractor' = extractor =>
              /\ n_files' >= n_files
              /\ n_dirs' >= n_dirs
              /\ IsPrefix(failed_ebooks, failed_ebooks')]_vars

\* main has ended after extracting several directories with files, among
\* them an e-book that failed and one that did not.
C10_Witness ==
    /\ pc = "done"
    /\ summary.dirs >= 2
    /\ summary.failures = 1
    /\ Cardinality(EpubRecords) = 2
    /\ summary.files = 3

====
